---- MODULE Spec2Model ----
(***************************************************************************)
(* The Impact Scoring Engine of the Oahu sustainability calculator         *)
(* (src/main.py): the five category calculators, the three physical        *)
(* estimators, the aggregator in calculate_impact and the improvement-area *)
(* selector in get_personalized_recommendations, and the page routing of   *)
(* the Streamlit application around them.                                  *)
(*                                                                         *)
(* Arithmetic.  The source computes in IEEE-754 doubles and rounds with    *)
(* Python's round(), which rounds an exact half to the even neighbour.     *)
(* Every quantity of a category calculator is a multiple of 0.01, so the   *)
(* model computes in integer hundredths and rounds half-to-even.  The       *)
(* weighted sum of the aggregator is also a multiple of 0.01, but the      *)
(* weights 0.2 and 0.15 are not doubles, and when the exact sum is a half  *)
(* the double sum may land a hair on either side of it; the model keeps    *)
(* the side in fp_tie_up and explores both.                                *)
(***************************************************************************)
EXTENDS Integers, Sequences, FiniteSets, TLC

VARIABLES
    user_data,              \* the questionnaire dict handed to the engine
    fp_tie_up,              \* side on which an inexact double falls at an exact half
    pc,                     \* how far the evaluation has come
    impact_results,         \* what calculate_impact returned, or None
    raised,                 \* the exception that escaped calculate_impact, or NoError
    entered,                \* the calculators calculate_impact entered, in order
    score,                  \* outcome of a calculator called on its own, or NotCalled
    areas_for_improvement,  \* the selector's list (empty until it has run)
    page,                   \* st.session_state.page
    recommendations         \* st.session_state.recommendations, or None

vars == <<user_data, fp_tie_up, pc, impact_results, raised, entered, score,
          areas_for_improvement, page, recommendations>>

None == [none |-> TRUE]
NoError == [error |-> "none", key |-> ""]
NotCalled == [ok |-> FALSE, error |-> "not called", key |-> ""]

----------------------------------------------------------------------------
(* Python values and built-ins *)

Min(a, b) == IF a <= b THEN a ELSE b
Max(a, b) == IF a >= b THEN a ELSE b

\* round(x) for x = n / d, d > 0: nearest integer, an exact half to the even one.
RoundHalfEven(n, d) ==
    LET r == n % d
        q == (n - r) \div d
    IN  IF 2 * r > d \/ (2 * r = d /\ q % 2 = 1) THEN q + 1 ELSE q

\* A call either returns a value or raises.
Return(v) == [ok |-> TRUE, value |-> v]
KeyError(k) == [ok |-> FALSE, error |-> "KeyError", key |-> k]
ZeroDivisionError == [ok |-> FALSE, error |-> "ZeroDivisionError", key |-> "division by zero"]

----------------------------------------------------------------------------
(* The questionnaire's option lists (input_page) *)

CarTypes == <<"Electric vehicle", "Hybrid vehicle", "Small gas car (30+ mpg)",
              "Medium gas car (20-30 mpg)", "Large gas car/SUV/truck (under 20 mpg)">>
RenewableOptions == <<"No", "Yes - solar panels", "Yes - other">>
ConservationMeasures == {"Low-flow showerheads/faucets", "Dual-flush toilets",
                         "Rainwater collection", "Drought-resistant landscaping",
                         "None of the above"}
Frequencies == <<"Never", "Rarely", "Sometimes", "Often", "Always">>
DietTypes == <<"Vegan", "Vegetarian", "Pescatarian",
               "Flexitarian (mostly plant-based with occasional meat)",
               "Omnivore (regular meat consumption)">>

Range(s) == {s[i] : i \in 1..Len(s)}

----------------------------------------------------------------------------
(* Oahu-specific factors, in hundredths *)

get_oahu_environmental_factors ==
    [transport |-> [traffic_congestion_factor |-> 80, public_transport_quality |-> 60,
                    ev_grid_impact |-> 70, avg_commute_distance |-> 1110],
     energy    |-> [electricity_cost |-> 34, renewable_percentage |-> 35,
                    fossil_fuel_dependency |-> 65, solar_potential |-> 90],
     water     |-> [freshwater_scarcity |-> 70, rainfall_variation |-> 70,
                    groundwater_stress |-> 60, avg_consumption |-> 11500],
     waste     |-> [limited_landfill_space |-> 80, recycling_infrastructure |-> 50,
                    marine_debris_impact |-> 90, waste_to_energy |-> 70],
     food      |-> [import_dependency |-> 85, local_agriculture_capacity |-> 30,
                    fishing_sustainability |-> 60, food_price_factor |-> 140],
     carbon    |-> [island_multiplier |-> 120, tourism_impact |-> 30,
                    baseline_emissions |-> 1690]]

----------------------------------------------------------------------------
(* Category calculators.  base_score is kept in hundredths. *)

\* max(0, min(100, round(base_score)))
CapScoreNoCeiling(base_score) == Max(0, RoundHalfEven(base_score, 100))
CapScore(base_score) == Max(0, Min(100, RoundHalfEven(base_score, 100)))

\* car_multipliers, in tenths
car_multipliers ==
    (CarTypes[1] :> 3) @@ (CarTypes[2] :> 6) @@ (CarTypes[3] :> 10) @@
    (CarTypes[4] :> 15) @@ (CarTypes[5] :> 20)

\* car_usage * car_multipliers[car_type] * 0.1
car_impact(ud) == ud.car_usage * car_multipliers[ud.car_type]

\* min(25, public_transport_usage * 1.5)
public_transport_benefit_uncapped(ud) == ud.public_transport_usage * 150
public_transport_benefit(ud) == Min(2500, ud.public_transport_usage * 150)

\* the island traffic congestion penalty and its condition
congestion_penalty_at_rest(ud, oahu_factors) ==
    IF ud.car_usage = 0 /\ ud.car_type \notin {CarTypes[1], CarTypes[2]}
    THEN oahu_factors.transport.traffic_congestion_factor * 5
    ELSE 0
congestion_penalty(ud, oahu_factors) ==
    IF ud.car_usage > 0 /\ ud.car_type \notin {CarTypes[1], CarTypes[2]}
    THEN oahu_factors.transport.traffic_congestion_factor * 5
    ELSE 0

calculate_transport_impact(ud, oahu_factors) ==
    IF ud.car_type \notin DOMAIN car_multipliers THEN KeyError(ud.car_type)
    ELSE Return(CapScore(100 * 100
                         - car_impact(ud)
                         + public_transport_benefit(ud)
                         - ud.flight_hours * 50
                         - congestion_penalty(ud, oahu_factors)))

\* the step table on per_person_electricity = electricity_bill / household_size
electricity_adjustment_steeper(per_person_num, per_person_den) ==
    LET n == per_person_num * per_person_den
        d == per_person_den * per_person_den
    IN  IF n < 50 * d THEN 15
        ELSE IF n < 75 * d THEN 10
        ELSE IF n < 100 * d THEN 5
        ELSE IF n > 150 * d THEN -15
        ELSE IF n > 125 * d THEN -10
        ELSE 0
electricity_adjustment_inclusive(per_person_num, per_person_den) ==
    LET n == per_person_num * per_person_den
        d == per_person_den * per_person_den
    IN  IF n <= 50 * d THEN 15
        ELSE IF n <= 75 * d THEN 10
        ELSE IF n <= 100 * d THEN 5
        ELSE IF n > 150 * d THEN -10
        ELSE IF n > 125 * d THEN -5
        ELSE 0
electricity_adjustment(per_person_num, per_person_den) ==
    \* per_person_electricity = num / den, den # 0; x < c  <=>  num * den < c * den * den
    LET n == per_person_num * per_person_den
        d == per_person_den * per_person_den
    IN  IF n < 50 * d THEN 15
        ELSE IF n < 75 * d THEN 10
        ELSE IF n < 100 * d THEN 5
        ELSE IF n > 150 * d THEN -10
        ELSE IF n > 125 * d THEN -5
        ELSE 0

renewable_bonus_flat(renewable_energy) ==
    IF renewable_energy = RenewableOptions[2] THEN 15
    ELSE IF renewable_energy = RenewableOptions[3] THEN 15
    ELSE 0
renewable_bonus(renewable_energy) ==
    IF renewable_energy = RenewableOptions[2] THEN 20
    ELSE IF renewable_energy = RenewableOptions[3] THEN 15
    ELSE 0

calculate_energy_impact(ud, oahu_factors) ==
    IF ud.household_size = 0 THEN ZeroDivisionError
    ELSE Return(CapScore(80 * 100
                         + electricity_adjustment(ud.electricity_bill, ud.household_size) * 100
                         + renewable_bonus(ud.renewable_energy) * 100
                         - ud.air_conditioning * 120
                         - oahu_factors.energy.fossil_fuel_dependency * 5))

\* 6 points per conservation measure, unless "None of the above" is selected
conservation_bonus_counting_all(water_conservation) ==
    Cardinality(water_conservation) * 6 * 100
conservation_bonus(water_conservation) ==
    IF "None of the above" \notin water_conservation
    THEN Cardinality(water_conservation) * 6 * 100
    ELSE 0

calculate_water_impact_per_household(ud, oahu_factors) ==
    Return(CapScore(75 * 100
                    - ud.shower_length * ud.shower_frequency * 20 * ud.household_size
                    + conservation_bonus(ud.water_conservation)
                    - oahu_factors.water.freshwater_scarcity * 5))
calculate_water_impact(ud, oahu_factors) ==
    Return(CapScore(75 * 100
                    - ud.shower_length * ud.shower_frequency * 20
                    + conservation_bonus(ud.water_conservation)
                    - oahu_factors.water.freshwater_scarcity * 5))

recycling_score_map ==
    (Frequencies[1] :> 0) @@ (Frequencies[2] :> 5) @@ (Frequencies[3] :> 10) @@
    (Frequencies[4] :> 15) @@ (Frequencies[5] :> 20)

plastic_score_map_even ==
    (Frequencies[1] :> 20) @@ (Frequencies[2] :> 10) @@ (Frequencies[3] :> 0) @@
    (Frequencies[4] :> -10) @@ (Frequencies[5] :> -20)
plastic_score_map ==
    (Frequencies[1] :> 20) @@ (Frequencies[2] :> 15) @@ (Frequencies[3] :> 5) @@
    (Frequencies[4] :> -5) @@ (Frequencies[5] :> -15)

calculate_waste_impact(ud, oahu_factors) ==
    IF ud.recycling_habit \notin DOMAIN recycling_score_map THEN KeyError(ud.recycling_habit)
    ELSE IF ud.single_use_plastics \notin DOMAIN plastic_score_map
    THEN KeyError(ud.single_use_plastics)
    ELSE Return(CapScore(60 * 100
                         + recycling_score_map[ud.recycling_habit] * 100
                         + (IF ud.composting THEN 15 * 100 ELSE 0)
                         + plastic_score_map[ud.single_use_plastics] * 100
                         + ud.local_food * 10
                         - oahu_factors.waste.limited_landfill_space * 5))

diet_score_map_even ==
    (DietTypes[1] :> 40) @@ (DietTypes[2] :> 30) @@ (DietTypes[3] :> 20) @@
    (DietTypes[4] :> 10) @@ (DietTypes[5] :> 0)
diet_score_map ==
    (DietTypes[1] :> 40) @@ (DietTypes[2] :> 30) @@ (DietTypes[3] :> 20) @@
    (DietTypes[4] :> 15) @@ (DietTypes[5] :> 0)

calculate_food_impact(ud, oahu_factors) ==
    IF ud.diet_type \notin DOMAIN diet_score_map THEN KeyError(ud.diet_type)
    ELSE Return(CapScore(50 * 100
                         + diet_score_map[ud.diet_type] * 100
                         + ud.local_food * 15
                         - ud.meals_out * 50
                         - oahu_factors.food.import_dependency * 5))

----------------------------------------------------------------------------
(* Physical estimators *)

\* round() of a double whose exact value is n / d: away from an exact half the
\* nearest integer; at an exact half the side the accumulated double error falls.
RoundDoubleTruncating(n, d, up) == (n - (n % d)) \div d
RoundDouble(n, d, up) ==
    LET r == n % d
        q == (n - r) \div d
    IN  IF 2 * r = d THEN (IF up THEN q + 1 ELSE q) ELSE RoundHalfEven(n, d)

\* car_emissions, kg of CO2 per mile, in tenths
car_emissions ==
    (CarTypes[1] :> 1) @@ (CarTypes[2] :> 2) @@ (CarTypes[3] :> 3) @@
    (CarTypes[4] :> 4) @@ (CarTypes[5] :> 6)

\* diet_emissions, tons of CO2 per year, in tenths
diet_emissions ==
    (DietTypes[1] :> 15) @@ (DietTypes[2] :> 20) @@ (DietTypes[3] :> 25) @@
    (DietTypes[4] :> 30) @@ (DietTypes[5] :> 40)

\* The running total before the island multiplier, in 1/10000 ton.
carbon_before_multiplier(ud) ==
    ud.car_usage * 52 * car_emissions[ud.car_type]
    + ud.flight_hours * 2000
    + ud.electricity_bill * 80
    - (IF ud.renewable_energy = RenewableOptions[2] THEN 20000
       ELSE IF ud.renewable_energy = RenewableOptions[3] THEN 10000 ELSE 0)
    + diet_emissions[ud.diet_type] * 1000
    - ud.local_food * 50
    - (IF ud.recycling_habit = Frequencies[5] THEN 5000
       ELSE IF ud.recycling_habit = Frequencies[4] THEN 3000 ELSE 0)
    - (IF ud.composting THEN 3000 ELSE 0)

\* The total after the island multiplier and the base emissions, in 1/1000000 ton.
carbon_base_multiplied(ud, oahu_factors) ==
    (carbon_before_multiplier(ud) + 5 * 10000) * oahu_factors.carbon.island_multiplier
carbon_after_multiplier(ud, oahu_factors) ==
    carbon_before_multiplier(ud) * oahu_factors.carbon.island_multiplier + 5 * 1000000

\* Tons of CO2 per year, in tenths: round(carbon_footprint, 1).
calculate_carbon_footprint(ud, oahu_factors, up) ==
    IF ud.car_type \notin DOMAIN car_emissions THEN KeyError(ud.car_type)
    ELSE IF ud.diet_type \notin DOMAIN diet_emissions THEN KeyError(ud.diet_type)
    ELSE Return(RoundDouble(carbon_after_multiplier(ud, oahu_factors), 100000, up))

\* water_usage before round(), in 1/7000 gallon per day.
water_usage_honouring_sentinel(ud) ==
    LET m == IF "None of the above" \in ud.water_conservation THEN {}
             ELSE ud.water_conservation
        before == 25 * ud.shower_length * ud.shower_frequency + 30 * 70 * ud.household_size
        low_flow == IF "Low-flow showerheads/faucets" \in m THEN 8 ELSE 10
        dual_flush == IF "Dual-flush toilets" \in m THEN 9 ELSE 10
        landscaping == IF "Drought-resistant landscaping" \in m THEN 10 ELSE 0
    IN  before * low_flow * dual_flush - landscaping * 7000
water_usage_landscaping_scaled(ud) ==
    LET m == ud.water_conservation
        before == 25 * ud.shower_length * ud.shower_frequency + 30 * 70 * ud.household_size
        low_flow == IF "Low-flow showerheads/faucets" \in m THEN 8 ELSE 10
        dual_flush == IF "Dual-flush toilets" \in m THEN 9 ELSE 10
        landscaping == IF "Drought-resistant landscaping" \in m THEN 10 ELSE 0
    IN  (before - landscaping * 70) * low_flow * dual_flush
water_usage_before_rounding(ud) ==
    LET m == ud.water_conservation
        before == 25 * ud.shower_length * ud.shower_frequency + 30 * 70 * ud.household_size
        low_flow == IF "Low-flow showerheads/faucets" \in m THEN 8 ELSE 10
        dual_flush == IF "Dual-flush toilets" \in m THEN 9 ELSE 10
        landscaping == IF "Drought-resistant landscaping" \in m THEN 10 ELSE 0
    IN  before * low_flow * dual_flush - landscaping * 7000

\* Gallons per day.
calculate_water_usage(ud, oahu_factors, up) ==
    Return(RoundDouble(water_usage_before_rounding(ud), 7000, up))

\* The factor of single_use_plastics on base_waste, in tenths.
plastics_factor_rarely(single_use_plastics) ==
    IF single_use_plastics = Frequencies[5] THEN 12
    ELSE IF single_use_plastics \in {Frequencies[1], Frequencies[2]} THEN 8
    ELSE 10
plastics_factor(single_use_plastics) ==
    IF single_use_plastics = Frequencies[5] THEN 12
    ELSE IF single_use_plastics = Frequencies[1] THEN 8
    ELSE 10

\* Pounds per week.  The value before rounding is n / 100000.
calculate_waste_generation(ud, oahu_factors, up) ==
    LET recycling == IF ud.recycling_habit = Frequencies[5] THEN 60
                     ELSE IF ud.recycling_habit = Frequencies[4] THEN 70
                     ELSE IF ud.recycling_habit = Frequencies[3] THEN 85
                     ELSE 100
        composting == IF ud.composting THEN 7 ELSE 10
    IN  Return(RoundDouble(45 * 7 * ud.household_size * recycling * composting
                               * plastics_factor(ud.single_use_plastics),
                           100000, up))

----------------------------------------------------------------------------
(* The aggregator: calculate_impact *)

Categories == <<"transport", "energy", "water", "waste", "food">>

\* weights, in hundredths
weights ==
    [transport |-> 25, energy |-> 25, water |-> 20, waste |-> 15, food |-> 15]

\* The weighted average before rounding, in hundredths.
weighted_sum(s) ==
    s.transport * weights.transport + s.energy * weights.energy
    + s.water * weights.water + s.waste * weights.waste + s.food * weights.food

\* overall_score = round(overall_score)
overall_truncated(s, up) == weighted_sum(s) \div 100
overall_rounded(s, up) == RoundDouble(weighted_sum(s), 100, up)

\* weights[c] * score / overall_score, as the fraction <<numerator, denominator>>
share(c, s, overall_score) == <<weights[c] * s[c], 100 * overall_score>>

\* The calls of lines 238-259, in order.
CalculatorOrder ==
    <<"calculate_transport_impact", "calculate_energy_impact", "calculate_water_impact",
      "calculate_waste_impact", "calculate_food_impact", "calculate_carbon_footprint",
      "calculate_water_usage", "calculate_waste_generation">>

Call(i, ud, up) ==
    LET oahu_factors == get_oahu_environmental_factors
    IN  CASE i = 1 -> calculate_transport_impact(ud, oahu_factors)
          [] i = 2 -> calculate_energy_impact(ud, oahu_factors)
          [] i = 3 -> calculate_water_impact(ud, oahu_factors)
          [] i = 4 -> calculate_waste_impact(ud, oahu_factors)
          [] i = 5 -> calculate_food_impact(ud, oahu_factors)
          [] i = 6 -> calculate_carbon_footprint(ud, oahu_factors, up)
          [] i = 7 -> calculate_water_usage(ud, oahu_factors, up)
          [] i = 8 -> calculate_waste_generation(ud, oahu_factors, up)

\* The first call that raises, or 0.
FirstRaise(ud, up) ==
    LET bad == {i \in 1..Len(CalculatorOrder) : ~Call(i, ud, up).ok}
    IN  IF bad = {} THEN 0 ELSE CHOOSE i \in bad : \A j \in bad : i <= j

\* The calculators and estimators calculate_impact enters before it returns or raises.
CalculatorsEntered(ud, up) ==
    IF FirstRaise(ud, up) = 0 THEN CalculatorOrder
    ELSE SubSeq(CalculatorOrder, 1, FirstRaise(ud, up))

\* The five category scores, once every call has returned.
category_scores(ud, up) ==
    [transport |-> Call(1, ud, up).value, energy |-> Call(2, ud, up).value,
     water |-> Call(3, ud, up).value, waste |-> Call(4, ud, up).value,
     food |-> Call(5, ud, up).value]

calculate_impact(ud, up) ==
    IF FirstRaise(ud, up) # 0 THEN Call(FirstRaise(ud, up), ud, up)
    ELSE
        LET s == category_scores(ud, up)
            overall_score == overall_rounded(s, up)
        IN  IF overall_score = 0 THEN ZeroDivisionError
            ELSE Return([overall_score |-> overall_score,
                         transport_score |-> s.transport,
                         energy_score |-> s.energy,
                         water_score |-> s.water,
                         waste_score |-> s.waste,
                         food_score |-> s.food,
                         carbon_footprint |-> Call(6, ud, up).value,
                         water_usage |-> Call(7, ud, up).value,
                         waste_generation |-> Call(8, ud, up).value,
                         impact_breakdown |->
                             [c \in Range(Categories) |-> share(c, s, overall_score)]])

----------------------------------------------------------------------------
(* The improvement-area selector: get_personalized_recommendations *)

\* impact_results['..._score'] < 60
needs_improvement_inclusive(category_score) == category_score <= 60
needs_improvement(category_score) == category_score < 60

\* The elif chain of the fallback: the first category holding the lowest score.
lowest_area_last(r) ==
    LET lowest_score == Min(r.transport_score, Min(r.energy_score, Min(r.water_score,
                            Min(r.waste_score, r.food_score))))
    IN  IF lowest_score = r.food_score THEN <<"food">>
        ELSE IF lowest_score = r.waste_score THEN <<"waste">>
        ELSE IF lowest_score = r.water_score THEN <<"water">>
        ELSE IF lowest_score = r.energy_score THEN <<"energy">>
        ELSE IF lowest_score = r.transport_score THEN <<"transportation">>
        ELSE <<>>
lowest_area(r) ==
    LET lowest_score == Min(r.transport_score, Min(r.energy_score, Min(r.water_score,
                            Min(r.waste_score, r.food_score))))
    IN  IF lowest_score = r.transport_score THEN <<"transportation">>
        ELSE IF lowest_score = r.energy_score THEN <<"energy">>
        ELSE IF lowest_score = r.water_score THEN <<"water">>
        ELSE IF lowest_score = r.waste_score THEN <<"waste">>
        ELSE IF lowest_score = r.food_score THEN <<"food">>
        ELSE <<>>

\* The list areas_for_improvement that get_personalized_recommendations builds.
get_areas_for_improvement(r) ==
    LET flagged ==
            (IF needs_improvement(r.transport_score) THEN <<"transportation">> ELSE <<>>)
            \o (IF needs_improvement(r.energy_score) THEN <<"energy">> ELSE <<>>)
            \o (IF needs_improvement(r.water_score) THEN <<"water">> ELSE <<>>)
            \o (IF needs_improvement(r.waste_score) THEN <<"waste">> ELSE <<>>)
            \o (IF needs_improvement(r.food_score) THEN <<"food">> ELSE <<>>)
    IN  IF flagged = <<>> THEN lowest_area(r) ELSE flagged

\* The dict get_personalized_recommendations returns: a literal, the same for
\* every user_data and impact_results (titles of the top recommendations and
\* the categories of the others).
get_personalized_recommendations(ud, r) ==
    [top_recommendations |->
         <<"Install Solar Panels", "Reduce Water Consumption", "Buy Local Food">>,
     category_recommendations |-> {"transportation", "energy", "water", "waste", "food"}]

----------------------------------------------------------------------------
(* Inputs *)

UnknownOption == "Unknown option"

\* The form's initial values (input_page).
transport_defaults ==
    [car_usage |-> 100, car_type |-> CarTypes[1], public_transport_usage |-> 0,
     flight_hours |-> 6]
energy_defaults ==
    [household_size |-> 2, electricity_bill |-> 200, renewable_energy |-> RenewableOptions[1],
     air_conditioning |-> 6]
water_defaults ==
    [shower_length |-> 8, shower_frequency |-> 7, water_conservation |-> {}]
waste_defaults ==
    [recycling_habit |-> Frequencies[1], composting |-> FALSE,
     single_use_plastics |-> Frequencies[1], local_food |-> 30]
food_defaults ==
    [diet_type |-> DietTypes[1], meals_out |-> 4]

\* user_data = {**transport_options, **energy_options, **water_options,
\*              **waste_options, **food_options}
merge_options(t, e, w, ws, f) == t @@ e @@ w @@ ws @@ f

\* The numeric answers are in the ranges the data model gives them (the form's
\* sliders and number inputs keep within these ranges).
NumbersValid(ud) ==
    /\ ud.car_usage >= 0
    /\ ud.public_transport_usage >= 0
    /\ ud.flight_hours >= 0
    /\ ud.household_size >= 1
    /\ ud.electricity_bill > 0
    /\ ud.air_conditioning \in 0..24
    /\ ud.shower_length >= 0
    /\ ud.shower_frequency >= 0
    /\ ud.local_food \in 0..100
    /\ ud.meals_out >= 0

\* The enum answers are among the options the form offers.
OptionsValid(ud) ==
    /\ ud.car_type \in Range(CarTypes)
    /\ ud.renewable_energy \in Range(RenewableOptions)
    /\ ud.water_conservation \subseteq ConservationMeasures
    /\ ud.recycling_habit \in Range(Frequencies)
    /\ ud.composting \in BOOLEAN
    /\ ud.single_use_plastics \in Range(Frequencies)
    /\ ud.diet_type \in Range(DietTypes)

\* A valid profile.
ValidProfile(ud) == NumbersValid(ud) /\ OptionsValid(ud)

MaxHouseholdSize == 2
MaxCarUsage == 5
ScoreSpread == 1

HouseholdSizes == (0 - 1)..MaxHouseholdSize

TransportOption(cu, ct, pt, fh) ==
    [car_usage |-> cu, car_type |-> ct, public_transport_usage |-> pt, flight_hours |-> fh]
EnergyOption(hs, eb, re, ac) ==
    [household_size |-> hs, electricity_bill |-> eb, renewable_energy |-> re,
     air_conditioning |-> ac]
WaterOption(sl, sf, wc) ==
    [shower_length |-> sl, shower_frequency |-> sf, water_conservation |-> wc]
WasteOption(rh, co, sp, lf) ==
    [recycling_habit |-> rh, composting |-> co, single_use_plastics |-> sp, local_food |-> lf]
FoodOption(dt, mo) ==
    [diet_type |-> dt, meals_out |-> mo]

\* The questionnaires evaluated whole: per section a few answers, among them
\* answers the form cannot produce but a caller of calculate_impact can.
TransportAnswers ==
    {transport_defaults,
     TransportOption(0, CarTypes[1], 0, 0),
     TransportOption(5, CarTypes[3], 30, 0),
     TransportOption(500, CarTypes[5], 0, 6),
     TransportOption(100, UnknownOption, 0, 6)}
EnergyAnswers ==
    {EnergyOption(hs, 200, RenewableOptions[1], 6) : hs \in HouseholdSizes}
    \cup {EnergyOption(1, 50, RenewableOptions[2], 0),
          EnergyOption(1, 1, RenewableOptions[2], 0),
          EnergyOption(1, 200, RenewableOptions[1], 24),
          EnergyOption(1, 200, RenewableOptions[1], 70),
          EnergyOption(2, 200, UnknownOption, 6)}
WaterAnswers ==
    {water_defaults,
     WaterOption(30, 14, {"None of the above"}),
     WaterOption(5, 7, {"Low-flow showerheads/faucets", "None of the above"}),
     WaterOption(1, 1, ConservationMeasures \ {"None of the above"})}
WasteAnswers ==
    {waste_defaults,
     WasteOption(Frequencies[5], TRUE, Frequencies[1], 100),
     WasteOption(Frequencies[3], FALSE, Frequencies[4], 0),
     WasteOption(Frequencies[2], TRUE, Frequencies[2], 30),
     WasteOption(Frequencies[1], FALSE, Frequencies[5], 0 - 500),
     WasteOption(UnknownOption, FALSE, Frequencies[1], 30),
     WasteOption(Frequencies[1], FALSE, UnknownOption, 30)}
FoodAnswers ==
    {food_defaults,
     FoodOption(DietTypes[5], 21),
     FoodOption(DietTypes[5], 100),
     FoodOption(UnknownOption, 4)}

Profiles ==
    {merge_options(t, e, w, ws, f) :
        t \in TransportAnswers, e \in EnergyAnswers, w \in WaterAnswers,
        ws \in WasteAnswers, f \in FoodAnswers}

\* The transport section in detail, the other sections as the form starts.
CarUsages == (0..MaxCarUsage) \cup {50, 500}
TransportProfiles ==
    {merge_options(TransportOption(cu, ct, pt, fh), energy_defaults, water_defaults,
                   waste_defaults, food_defaults) :
        cu \in CarUsages, ct \in Range(CarTypes) \cup {UnknownOption},
        pt \in {0, 16, 17, 30}, fh \in {0, 6, 201}}

\* The energy section in detail.
EnergyProfiles ==
    {merge_options(transport_defaults, EnergyOption(hs, eb, re, ac), water_defaults,
                   waste_defaults, food_defaults) :
        hs \in HouseholdSizes,
        eb \in {1, 49, 50, 74, 75, 99, 100, 125, 126, 150, 151, 200, 500},
        re \in Range(RenewableOptions) \cup {UnknownOption},
        ac \in {0, 6, 24, 70}}

\* The water section in detail, with the household size the usage estimate reads.
WaterProfiles ==
    {merge_options(transport_defaults, EnergyOption(hs, 200, RenewableOptions[1], 6),
                   WaterOption(sl, sf, wc), waste_defaults, food_defaults) :
        hs \in HouseholdSizes, sl \in {0, 1, 5, 8, 30}, sf \in {0, 1, 7, 14},
        wc \in SUBSET ConservationMeasures}

\* The waste section in detail, with the household size the generation estimate reads.
WasteProfiles ==
    {merge_options(transport_defaults, EnergyOption(hs, 200, RenewableOptions[1], 6),
                   water_defaults, WasteOption(rh, co, sp, lf), food_defaults) :
        hs \in HouseholdSizes, rh \in Range(Frequencies) \cup {UnknownOption},
        co \in BOOLEAN, sp \in Range(Frequencies) \cup {UnknownOption},
        lf \in {0, 5, 30, 45, 100}}

\* The food section in detail, with the local_food answer of the waste section.
FoodProfiles ==
    {merge_options(transport_defaults, energy_defaults, water_defaults,
                   WasteOption(Frequencies[1], FALSE, Frequencies[1], lf),
                   FoodOption(dt, mo)) :
        dt \in Range(DietTypes) \cup {UnknownOption}, lf \in {0, 5, 30, 45, 100},
        mo \in {0, 1, 4, 21, 100}}

\* The answers the carbon footprint estimate reads.
CarbonProfiles ==
    {merge_options(TransportOption(cu, ct, 0, fh), EnergyOption(2, eb, re, 6),
                   water_defaults, WasteOption(rh, co, Frequencies[1], lf),
                   FoodOption(dt, 4)) :
        cu \in {0, 100, 500}, ct \in {CarTypes[1], CarTypes[5]}, fh \in {0, 6},
        eb \in {1, 200, 500}, re \in Range(RenewableOptions),
        rh \in {Frequencies[1], Frequencies[4], Frequencies[5]}, co \in BOOLEAN,
        lf \in {0, 30, 100}, dt \in {DietTypes[1], DietTypes[5], UnknownOption}}

\* Questionnaires submitted in a session: answers the widgets of the form can
\* give, with different areas for improvement.
FormProfiles ==
    {merge_options(t, e, w, waste_defaults, food_defaults) :
        t \in {transport_defaults, TransportOption(500, CarTypes[5], 0, 6)},
        e \in {energy_defaults, EnergyOption(1, 200, RenewableOptions[1], 24)},
        w \in {water_defaults, WaterOption(30, 14, {"None of the above"})}}

\* Category scores handed to the selector: around its threshold, and the extremes.
ScoreSamples == ((60 - ScoreSpread)..(60 + ScoreSpread)) \cup {0, 100}
ScoreRecords ==
    [transport_score : ScoreSamples, energy_score : ScoreSamples,
     water_score : ScoreSamples, waste_score : ScoreSamples, food_score : ScoreSamples]

----------------------------------------------------------------------------
(* Operations *)

Idle ==
    /\ fp_tie_up \in BOOLEAN
    /\ pc = "start"
    /\ impact_results = None
    /\ raised = NoError
    /\ entered = <<>>
    /\ score = NotCalled
    /\ areas_for_improvement = <<>>
    /\ page = "input"
    /\ recommendations = None

\* impact_results = calculate_impact(user_data)
CalculateImpact ==
    /\ pc = "start"
    /\ LET out == calculate_impact(user_data, fp_tie_up)
       IN  IF out.ok
           THEN /\ impact_results' = out.value
                /\ raised' = NoError
                /\ pc' = "returned"
           ELSE /\ impact_results' = impact_results
                /\ raised' = [error |-> out.error, key |-> out.key]
                /\ pc' = "raised"
    /\ entered' = CalculatorsEntered(user_data, fp_tie_up)
    /\ UNCHANGED <<user_data, fp_tie_up, score, areas_for_improvement, page,
                   recommendations>>

\* get_personalized_recommendations(user_data, impact_results), as results_page calls it
GetRecommendations ==
    /\ pc = "returned"
    /\ areas_for_improvement' = get_areas_for_improvement(impact_results)
    /\ recommendations' = get_personalized_recommendations(user_data, impact_results)
    /\ pc' = "recommended"
    /\ UNCHANGED <<user_data, fp_tie_up, impact_results, raised, entered, score, page>>

\* calculate_transport_impact(user_data, oahu_factors) on its own
CallTransportImpact ==
    /\ pc = "start"
    /\ score' = calculate_transport_impact(user_data, get_oahu_environmental_factors)
    /\ pc' = "scored"
    /\ UNCHANGED <<user_data, fp_tie_up, impact_results, raised, entered,
                   areas_for_improvement, page, recommendations>>

\* calculate_energy_impact(user_data, oahu_factors) on its own
CallEnergyImpact ==
    /\ pc = "start"
    /\ score' = calculate_energy_impact(user_data, get_oahu_environmental_factors)
    /\ pc' = "scored"
    /\ UNCHANGED <<user_data, fp_tie_up, impact_results, raised, entered,
                   areas_for_improvement, page, recommendations>>

\* calculate_water_impact(user_data, oahu_factors) on its own
CallWaterImpact ==
    /\ pc = "start"
    /\ score' = calculate_water_impact(user_data, get_oahu_environmental_factors)
    /\ pc' = "scored"
    /\ UNCHANGED <<user_data, fp_tie_up, impact_results, raised, entered,
                   areas_for_improvement, page, recommendations>>

\* calculate_waste_impact(user_data, oahu_factors) on its own
CallWasteImpact ==
    /\ pc = "start"
    /\ score' = calculate_waste_impact(user_data, get_oahu_environmental_factors)
    /\ pc' = "scored"
    /\ UNCHANGED <<user_data, fp_tie_up, impact_results, raised, entered,
                   areas_for_improvement, page, recommendations>>

\* calculate_food_impact(user_data, oahu_factors) on its own
CallFoodImpact ==
    /\ pc = "start"
    /\ score' = calculate_food_impact(user_data, get_oahu_environmental_factors)
    /\ pc' = "scored"
    /\ UNCHANGED <<user_data, fp_tie_up, impact_results, raised, entered,
                   areas_for_improvement, page, recommendations>>

\* calculate_carbon_footprint(user_data, oahu_factors) on its own
CallCarbonFootprint ==
    /\ pc = "start"
    /\ score' = calculate_carbon_footprint(user_data, get_oahu_environmental_factors, fp_tie_up)
    /\ pc' = "scored"
    /\ UNCHANGED <<user_data, fp_tie_up, impact_results, raised, entered,
                   areas_for_improvement, page, recommendations>>

\* calculate_water_usage(user_data, oahu_factors) on its own
CallWaterUsage ==
    /\ pc = "start"
    /\ score' = calculate_water_usage(user_data, get_oahu_environmental_factors, fp_tie_up)
    /\ pc' = "scored"
    /\ UNCHANGED <<user_data, fp_tie_up, impact_results, raised, entered,
                   areas_for_improvement, page, recommendations>>

\* calculate_waste_generation(user_data, oahu_factors) on its own
CallWasteGeneration ==
    /\ pc = "start"
    /\ score' = calculate_waste_generation(user_data, get_oahu_environmental_factors, fp_tie_up)
    /\ pc' = "scored"
    /\ UNCHANGED <<user_data, fp_tie_up, impact_results, raised, entered,
                   areas_for_improvement, page, recommendations>>

\* One evaluation: calculate_impact, then the selector on what it returned.
Init == user_data \in Profiles /\ Idle
Next == CalculateImpact \/ GetRecommendations
Spec == Init /\ [][Next]_vars

\* The selector on any five category scores.
InitSelector ==
    /\ user_data = merge_options(transport_defaults, energy_defaults, water_defaults,
                                 waste_defaults, food_defaults)
    /\ fp_tie_up = FALSE
    /\ pc = "returned"
    /\ impact_results \in ScoreRecords
    /\ raised = NoError
    /\ entered = CalculatorOrder
    /\ score = NotCalled
    /\ areas_for_improvement = <<>>
    /\ page = "results"
    /\ recommendations = None
NextSelector == GetRecommendations
SpecSelector == InitSelector /\ [][NextSelector]_vars

\* The transport calculator on its own.
InitTransport == user_data \in TransportProfiles /\ Idle /\ fp_tie_up = FALSE
NextTransport == CallTransportImpact
SpecTransport == InitTransport /\ [][NextTransport]_vars

\* The energy calculator on its own.
InitEnergy == user_data \in EnergyProfiles /\ Idle /\ fp_tie_up = FALSE
NextEnergy == CallEnergyImpact
SpecEnergy == InitEnergy /\ [][NextEnergy]_vars

\* The water calculator on its own.
InitWater == user_data \in WaterProfiles /\ Idle /\ fp_tie_up = FALSE
NextWater == CallWaterImpact
SpecWater == InitWater /\ [][NextWater]_vars

\* The waste calculator on its own.
InitWaste == user_data \in WasteProfiles /\ Idle /\ fp_tie_up = FALSE
NextWaste == CallWasteImpact
SpecWaste == InitWaste /\ [][NextWaste]_vars

\* The food calculator on its own.
InitFood == user_data \in FoodProfiles /\ Idle /\ fp_tie_up = FALSE
NextFood == CallFoodImpact
SpecFood == InitFood /\ [][NextFood]_vars

\* The carbon footprint estimate on its own.
InitCarbon == user_data \in CarbonProfiles /\ Idle
NextCarbon == CallCarbonFootprint
SpecCarbon == InitCarbon /\ [][NextCarbon]_vars

\* The water usage estimate on its own.
InitWaterUsage == user_data \in WaterProfiles /\ Idle
NextWaterUsage == CallWaterUsage
SpecWaterUsage == InitWaterUsage /\ [][NextWaterUsage]_vars

\* The waste generation estimate on its own.
InitWasteGeneration == user_data \in WasteProfiles /\ Idle
NextWasteGeneration == CallWasteGeneration
SpecWasteGeneration == InitWasteGeneration /\ [][NextWasteGeneration]_vars

----------------------------------------------------------------------------
(* The application: page routing over st.session_state.  One action is one
   press of a button with the script run that follows it. *)

\* st.session_state.user_data before the first submission: {}
EmptyDict == << >>

\* results_page: whether this run generates the recommendations
generates_recommendations_inverted(r, recs) == r # None /\ recs # None
generates_recommendations_always(r, recs) == r # None
generates_recommendations(r, recs) == r # None /\ recs = None

\* results_page rendering r = st.session_state.impact_results
results_page(r) ==
    IF generates_recommendations(r, recommendations)
    THEN /\ recommendations' = get_personalized_recommendations(user_data', r)
         /\ areas_for_improvement' = get_areas_for_improvement(r)
    ELSE UNCHANGED <<recommendations, areas_for_improvement>>

\* go_to_page('input'): "Get Started" on the welcome page, or "Go to
\* Questionnaire" where results_page or recommendations_page finds nothing stored
GoToInput ==
    /\ \/ page = "welcome"
       \/ page = "results" /\ impact_results = None
       \/ page = "recommendations" /\ recommendations = None
    /\ page' = "input"
    /\ UNCHANGED <<user_data, fp_tie_up, pc, impact_results, raised, entered, score,
                   areas_for_improvement, recommendations>>

\* "Calculate My Impact": store the answers, calculate_impact, go_to_page('results'),
\* and the run of results_page that follows
SubmitForm ==
    /\ page = "input"
    /\ \E form \in FormProfiles :
           /\ user_data' = form
           /\ entered' = CalculatorsEntered(form, fp_tie_up)
           /\ LET out == calculate_impact(form, fp_tie_up)
              IN  IF out.ok
                  THEN /\ impact_results' = out.value
                       /\ raised' = NoError
                       /\ pc' = "returned"
                       /\ page' = "results"
                       /\ results_page(out.value)
                  ELSE /\ raised' = [error |-> out.error, key |-> out.key]
                       /\ pc' = "raised"
                       /\ UNCHANGED <<impact_results, page, recommendations,
                                      areas_for_improvement>>
    /\ UNCHANGED <<fp_tie_up, score>>

\* "View My Personalized Recommendations", offered by results_page below the results
ViewRecommendations ==
    /\ page = "results"
    /\ impact_results # None
    /\ page' = "recommendations"
    /\ UNCHANGED <<user_data, fp_tie_up, pc, impact_results, raised, entered, score,
                   areas_for_improvement, recommendations>>

\* "View My Impact Results", offered by recommendations_page below the recommendations
ViewResults ==
    /\ page = "recommendations"
    /\ recommendations # None
    /\ page' = "results"
    /\ results_page(impact_results)
    /\ UNCHANGED <<user_data, fp_tie_up, pc, impact_results, raised, entered, score>>

\* "Start Over", offered by recommendations_page below the recommendations
StartOver ==
    /\ page = "recommendations"
    /\ recommendations # None
    /\ page' = "welcome"
    /\ UNCHANGED <<user_data, fp_tie_up, pc, impact_results, raised, entered, score,
                   areas_for_improvement, recommendations>>

\* A session, from its first run.
InitSession ==
    /\ page = "welcome"
    /\ user_data = EmptyDict
    /\ impact_results = None
    /\ recommendations = None
    /\ fp_tie_up \in BOOLEAN
    /\ pc = "start"
    /\ raised = NoError
    /\ entered = <<>>
    /\ score = NotCalled
    /\ areas_for_improvement = <<>>
NextSession == GoToInput \/ SubmitForm \/ ViewRecommendations \/ ViewResults \/ StartOver
SpecSession == InitSession /\ [][NextSession]_vars

----------------------------------------------------------------------------
(* Properties of one evaluation (Spec) *)

Returned == pc \in {"returned", "recommended"}
Finished == pc # "start"

ScoreFields ==
    <<"transport_score", "energy_score", "water_score", "waste_score", "food_score">>

\* C1: for a valid profile, each of the five category scores calculate_impact
\* returns, and overall_score, is an integer from 0 to 100.
C1_ScoresWithinRange ==
    (Returned /\ ValidProfile(user_data)) =>
        /\ \A k \in Range(ScoreFields) : impact_results[k] \in 0..100
        /\ impact_results.overall_score \in 0..100

\* A valid profile has been evaluated with one score held at the ceiling and
\* another at the floor.
C1_Witness ==
    /\ Returned /\ ValidProfile(user_data)
    /\ impact_results.energy_score = 100
    /\ impact_results.transport_score = 0

\* The distance between the sum of the five shares and 1, times the shares'
\* common denominator 100 * overall_score.  (The doubles of the source differ
\* from these fractions by about 1e-16, the fractions' sum from 1 by 0 or by at
\* least 1e-4, so the tolerance 1e-6 decides the same way on both.)
BreakdownExcess(r) ==
    LET total == r.impact_breakdown.transport[1] + r.impact_breakdown.energy[1]
                 + r.impact_breakdown.water[1] + r.impact_breakdown.waste[1]
                 + r.impact_breakdown.food[1]
        den == r.impact_breakdown.transport[2]
    IN  IF total >= den THEN total - den ELSE den - total

\* C2: for a valid profile with overall_score > 0 the five impact_breakdown
\* shares add up to 1.0 within 1e-6.
C2_BreakdownSumsToOne ==
    (Returned /\ ValidProfile(user_data) /\ impact_results.overall_score > 0) =>
        BreakdownExcess(impact_results) * 1000000
            <= impact_results.impact_breakdown.transport[2]

\* C4: when the category scores make overall_score 0, calculate_impact does not
\* fail with a division error but returns five shares that are all zero.
C4_ZeroOverallGivesZeroShares ==
    (/\ Finished
     /\ FirstRaise(user_data, fp_tie_up) = 0
     /\ overall_rounded(category_scores(user_data, fp_tie_up), fp_tie_up) = 0) =>
        /\ pc # "raised"
        /\ \A c \in Range(Categories) : impact_results.impact_breakdown[c][1] = 0

\* C21: for every valid profile the energy score is at least 38, hence
\* overall_score is strictly positive and the division by overall_score in
\* impact_breakdown never divides by zero.
C21_EnergyFloorKeepsOverallPositive ==
    (Finished /\ ValidProfile(user_data)) =>
        /\ pc # "raised"
        /\ impact_results.energy_score >= 38
        /\ impact_results.overall_score > 0

\* The floor is met: the highest bill band, no renewables, air conditioning
\* all day give round(80 - 10 - 28.8 - 3.25) = 38, and the shares were computed.
C21_Witness ==
    /\ Returned /\ ValidProfile(user_data)
    /\ user_data.air_conditioning = 24
    /\ user_data.electricity_bill > 150 * user_data.household_size
    /\ impact_results.energy_score = 38
    /\ impact_results.overall_score > 0

\* C22: for every valid profile the three physical estimates are strictly
\* positive although none is clamped: carbon_footprint >= 2.8 (28 tenths),
\* water_usage >= 12 and waste_generation >= 11, whatever renewable energy,
\* diet, recycling, composting and conservation measures are selected.
C22_EstimatesHaveFloors ==
    (Returned /\ ValidProfile(user_data)) =>
        /\ impact_results.carbon_footprint >= 28
        /\ impact_results.water_usage >= 12
        /\ impact_results.waste_generation >= 11

\* Every deduction at once on the smallest household: the three floors are met
\* together (sum before the multiplier -1.792, 11.857 gallons, 10.584 pounds).
C22_Witness ==
    /\ Returned /\ ValidProfile(user_data)
    /\ carbon_before_multiplier(user_data) < 0
    /\ user_data.water_conservation = ConservationMeasures \ {"None of the above"}
    /\ impact_results.carbon_footprint = 28
    /\ impact_results.water_usage = 12
    /\ impact_results.waste_generation = 11

\* C5: a profile with household_size < 1 is rejected with an InvalidInputError
\* before any calculator or estimator is entered.
C5_SmallHouseholdRejectedUpFront ==
    (Finished /\ user_data.household_size < 1) =>
        /\ pc = "raised"
        /\ raised.error = "InvalidInputError"
        /\ entered = <<>>

\* The answers of the enum-valued fields that are in no lookup table.
UnmappedAnswers(ud) ==
    ({ud.car_type} \ Range(CarTypes))
    \cup ({ud.diet_type} \ Range(DietTypes))
    \cup ({ud.renewable_energy} \ Range(RenewableOptions))
    \cup ({ud.recycling_habit} \ Range(Frequencies))
    \cup ({ud.single_use_plastics} \ Range(Frequencies))

\* C6: an enum-valued field outside the engine's lookup set makes
\* calculate_impact fail with an error that identifies the unmapped key; it is
\* never evaluated as if it were a default.  (Stated for profiles whose numbers
\* are all in range, so that nothing else can fail first.)
C6_UnmappedAnswerFails ==
    (Finished /\ NumbersValid(user_data) /\ UnmappedAnswers(user_data) # {}) =>
        /\ pc = "raised"
        /\ raised.key \in UnmappedAnswers(user_data)

\* C10: overall_score is the weighted sum of the five category scores with the
\* weights 0.25, 0.25, 0.20, 0.15, 0.15 (which sum to 1.0), rounded to the
\* nearest integer: it lies within one half of that sum.
C10_OverallIsRoundedWeightedSum ==
    Returned =>
        LET sum == 25 * impact_results.transport_score + 25 * impact_results.energy_score
                   + 20 * impact_results.water_score + 15 * impact_results.waste_score
                   + 15 * impact_results.food_score
            ov == 100 * impact_results.overall_score
        IN  /\ ov - sum <= 50 /\ sum - ov <= 50
            /\ weights.transport + weights.energy + weights.water + weights.waste
               + weights.food = 100

\* An evaluation whose weighted sum was rounded up to the next integer.
C10_Witness ==
    /\ Returned
    /\ LET s == [transport |-> impact_results.transport_score,
                 energy |-> impact_results.energy_score,
                 water |-> impact_results.water_score,
                 waste |-> impact_results.waste_score,
                 food |-> impact_results.food_score]
       IN  /\ weighted_sum(s) % 100 > 50
           /\ impact_results.overall_score = weighted_sum(s) \div 100 + 1

----------------------------------------------------------------------------
(* Properties of the energy calculator (SpecEnergy) *)

Scored == pc = "scored" /\ score.ok

\* The energy score of the same profile with solar panels.
EnergyScoreWithSolar ==
    calculate_energy_impact([user_data EXCEPT !.renewable_energy = RenewableOptions[2]],
                            get_oahu_environmental_factors).value

\* C3 as stated: switching renewable_energy from "No" to "Yes - solar panels",
\* all else fixed, raises the energy score by exactly 20 for every valid profile.
C3_SolarAddsExactlyTwenty ==
    (Scored /\ ValidProfile(user_data) /\ user_data.renewable_energy = RenewableOptions[1]) =>
        EnergyScoreWithSolar = score.value + 20

\* C3 amended: the switch raises the energy score by 20 up to the cap of 100:
\* the score with solar panels is min(100, score without + 20).
C3_SolarAddsTwentyUpToCap ==
    (Scored /\ ValidProfile(user_data) /\ user_data.renewable_energy = RenewableOptions[1]) =>
        EnergyScoreWithSolar = Min(100, score.value + 20)

\* A valid profile without renewable energy scores above 80, so that the cap
\* cuts the solar bonus short.
C3_Witness ==
    /\ Scored /\ ValidProfile(user_data)
    /\ user_data.renewable_energy = RenewableOptions[1]
    /\ score.value > 80
    /\ EnergyScoreWithSolar = 100

\* The band of the per-person monthly bill p = electricity_bill / household_size,
\* for household_size >= 1: p < 50, 50 <= p < 75, 75 <= p < 100, 100 <= p <= 125,
\* 125 < p <= 150, p > 150.
BillBand(ud) ==
    LET bill == ud.electricity_bill
        hs == ud.household_size
    IN  CASE bill < 50 * hs -> 1
          [] 50 * hs <= bill /\ bill < 75 * hs -> 2
          [] 75 * hs <= bill /\ bill < 100 * hs -> 3
          [] 100 * hs <= bill /\ bill <= 125 * hs -> 4
          [] 125 * hs < bill /\ bill <= 150 * hs -> 5
          [] bill > 150 * hs -> 6

\* C13: the per-person bill adds exactly one of +15, +10, +5, 0, -5, -10 to the
\* energy score, by the band it falls in (50 is in the +10 band, 125 in the 0
\* band, 150 in the -5 band); two bands are never added together.
C13_OneElectricityBand ==
    (Scored /\ ValidProfile(user_data)) =>
        score.value = CapScore(80 * 100
                               + <<15, 10, 5, 0, -5, -10>>[BillBand(user_data)] * 100
                               + renewable_bonus(user_data.renewable_energy) * 100
                               - user_data.air_conditioning * 120
                               - 325)

\* One person with a bill of exactly 50, no renewables, no air conditioning:
\* round(80 + 10 - 3.25) = 87.
C13_Witness ==
    /\ Scored /\ ValidProfile(user_data)
    /\ user_data.household_size = 1 /\ user_data.electricity_bill = 50
    /\ user_data.renewable_energy = RenewableOptions[1]
    /\ user_data.air_conditioning = 0
    /\ score.value = 87

----------------------------------------------------------------------------
(* Properties of the transport calculator (SpecTransport) *)

\* The transport score of the same profile driven b miles a week.
TransportScoreAt(b) ==
    calculate_transport_impact([user_data EXCEPT !.car_usage = b],
                               get_oahu_environmental_factors).value

\* C9: with car_type and every other field fixed, more car_usage never gives a
\* higher transport score, the step from 0 to a positive usage, rounding and
\* the caps included.
C9_TransportScoreWeaklyDecreasing ==
    (Scored /\ ValidProfile(user_data)) =>
        \A b \in CarUsages : b >= user_data.car_usage => TransportScoreAt(b) <= score.value

\* A gas car that is not driven has been scored, and driving it scores lower.
C9_Witness ==
    /\ Scored /\ ValidProfile(user_data)
    /\ user_data.car_usage = 0
    /\ user_data.car_type = CarTypes[3]
    /\ \E b \in CarUsages : b > 0 /\ TransportScoreAt(b) < score.value

\* C14: the transport score is
\* clamp(round(100 - car_usage * m * 0.1 + min(25, public_transport_usage * 1.5)
\*             - flight_hours * 0.5 - penalty)),
\* m being 0.3, 0.6, 1.0, 1.5, 2.0 by car type and penalty 4 exactly when the
\* car is driven and is neither electric nor hybrid; an undriven electric car
\* without transit or flights scores 100.
C14_TransportFormula ==
    (Scored /\ ValidProfile(user_data)) =>
        LET cu == user_data.car_usage
            pt == user_data.public_transport_usage
            fh == user_data.flight_hours
            m10 == CASE user_data.car_type = "Electric vehicle" -> 3
                     [] user_data.car_type = "Hybrid vehicle" -> 6
                     [] user_data.car_type = "Small gas car (30+ mpg)" -> 10
                     [] user_data.car_type = "Medium gas car (20-30 mpg)" -> 15
                     [] user_data.car_type = "Large gas car/SUV/truck (under 20 mpg)" -> 20
            bonus == IF pt * 150 > 2500 THEN 2500 ELSE pt * 150
            penalty == IF cu > 0 /\ user_data.car_type \notin {"Electric vehicle", "Hybrid vehicle"}
                       THEN 400 ELSE 0
        IN  /\ score.value = Max(0, Min(100, RoundHalfEven(10000 - cu * m10 + bonus
                                                           - fh * 50 - penalty, 100)))
            /\ (cu = 0 /\ m10 = 3 /\ pt = 0 /\ fh = 0) => score.value = 100

\* A driven large gas car with the transit bonus at its cap of 25 (17 hours
\* would give 25.5) and the penalty of 4: round(100 - 10 + 25 - 100.5 - 4) = 10.
C14_Witness ==
    /\ Scored /\ ValidProfile(user_data)
    /\ user_data.car_usage = 50 /\ user_data.car_type = CarTypes[5]
    /\ user_data.public_transport_usage = 17 /\ user_data.flight_hours = 201
    /\ score.value = 10

----------------------------------------------------------------------------
(* Properties of the physical estimators (SpecCarbon, SpecWaterUsage,
   SpecWasteGeneration) *)

\* C15: the carbon footprint is round_to_1_decimal(1.2 * S + 5.0), S being the
\* sum of all the additive and subtractive terms: the island multiplier scales
\* the whole of S once, flat deductions included, the 5.0 is added after it and
\* is not multiplied, and nothing is clamped.  In tenths of a ton, with S in
\* 1/10000 ton: the result is a nearest tenth of (120 * S + 5000000) / 1000000.
C15_CarbonIsMultipliedSumPlusBase ==
    Scored =>
        LET S == carbon_before_multiplier(user_data)
            exact == 120 * S + 5000000
        IN  /\ 2 * (score.value * 100000 - exact) <= 100000
            /\ 2 * (exact - score.value * 100000) <= 100000

\* The deductions outweigh the emissions (S = -1.792), and the estimate is
\* round(1.2 * -1.792 + 5.0, 1) = 2.8, below the base emissions of 5.0.
C15_Witness ==
    /\ Scored
    /\ carbon_before_multiplier(user_data) = 0 - 17920
    /\ score.value = 28

\* C16: the water usage is round(((shower_length * 2.5 * shower_frequency / 7)
\* + 30 * household_size) * a * b - c), a = 0.8 with low-flow fixtures, b = 0.9
\* with dual-flush toilets, c = 10 with drought-resistant landscaping: the flat
\* 10 is subtracted after the multiplications, unscaled, and nothing is clamped.
C16_WaterUsageFormula ==
    Scored =>
        LET m == user_data.water_conservation
            \* in 1/70 gallon: 2.5 * sl * sf / 7 = 25 * sl * sf / 70
            base70 == 25 * user_data.shower_length * user_data.shower_frequency
                      + 30 * 70 * user_data.household_size
            a10 == IF "Low-flow showerheads/faucets" \in m THEN 8 ELSE 10
            b10 == IF "Dual-flush toilets" \in m THEN 9 ELSE 10
            c == IF "Drought-resistant landscaping" \in m THEN 10 ELSE 0
            exact == base70 * a10 * b10 - c * 7000
        IN  /\ 2 * (score.value * 7000 - exact) <= 7000
            /\ 2 * (exact - score.value * 7000) <= 7000

\* All three measures at once: round((8 * 2.5 * 7 / 7 + 60) * 0.8 * 0.9 - 10)
\* = round(47.6) = 48; scaling the 10 as well would give round(50.4) = 50.
C16_Witness ==
    /\ Scored /\ ValidProfile(user_data)
    /\ user_data.shower_length = 8 /\ user_data.shower_frequency = 7
    /\ user_data.household_size = 2
    /\ user_data.water_conservation =
           {"Low-flow showerheads/faucets", "Dual-flush toilets",
            "Drought-resistant landscaping"}
    /\ score.value = 48

\* The same profile with "None of the above" taken out of water_conservation.
WithoutSentinel ==
    [user_data EXCEPT !.water_conservation = @ \ {"None of the above"}]

\* C23: "None of the above" is honoured by the water score and ignored by the
\* water usage estimate: with the sentinel added to a selection the estimate is
\* the one of the selection alone (low-flow, dual-flush and landscaping still
\* apply), while the water score loses the whole conservation bonus.
C23_SentinelIgnoredByWaterUsage ==
    (Scored /\ "None of the above" \in user_data.water_conservation) =>
        /\ score = calculate_water_usage(WithoutSentinel, get_oahu_environmental_factors,
                                         fp_tie_up)
        /\ calculate_water_impact(user_data, get_oahu_environmental_factors).value =
               Max(0, Min(100, RoundHalfEven(7500 - user_data.shower_length
                                                    * user_data.shower_frequency * 20
                                             - 350, 100)))

\* The sentinel selected with all four measures: the estimate is still
\* round(47.6) = 48, not the round(80) of no measure, and the water score is
\* round(75 - 11.2 - 3.5) = 60 while the four measures alone score 84.
C23_Witness ==
    /\ Scored /\ ValidProfile(user_data)
    /\ user_data.water_conservation = ConservationMeasures
    /\ user_data.shower_length = 8 /\ user_data.shower_frequency = 7
    /\ user_data.household_size = 2
    /\ score.value = 48
    /\ calculate_water_impact(user_data, get_oahu_environmental_factors).value = 60
    /\ calculate_water_impact(WithoutSentinel, get_oahu_environmental_factors).value = 84

\* C18: the weekly waste is round(4.5 * 7 * household_size * r * c * p), r = 0.6
\* / 0.7 / 0.85 for recycling Always / Often / Sometimes and 1.0 otherwise,
\* c = 0.7 with composting, p = 1.2 for single-use plastics Always, 0.8 for
\* Never and 1.0 otherwise; one person recycling Always, composting and never
\* using single-use plastics gets round(31.5 * 0.6 * 0.7 * 0.8) = 11.
C18_WasteGenerationFormula ==
    (Scored /\ OptionsValid(user_data)) =>
        LET r100 == CASE user_data.recycling_habit = "Always" -> 60
                      [] user_data.recycling_habit = "Often" -> 70
                      [] user_data.recycling_habit = "Sometimes" -> 85
                      [] OTHER -> 100
            c10 == IF user_data.composting THEN 7 ELSE 10
            p10 == CASE user_data.single_use_plastics = "Always" -> 12
                     [] user_data.single_use_plastics = "Never" -> 8
                     [] OTHER -> 10
            exact == 45 * 7 * user_data.household_size * r100 * c10 * p10
        IN  /\ 2 * (score.value * 100000 - exact) <= 100000
            /\ 2 * (exact - score.value * 100000) <= 100000
            /\ (user_data.household_size = 1 /\ r100 = 60 /\ c10 = 7 /\ p10 = 8) =>
                   score.value = 11

\* The scenario has been estimated: 10.584 pounds, rounded to 11.
C18_Witness ==
    /\ Scored /\ ValidProfile(user_data)
    /\ user_data.household_size = 1
    /\ user_data.recycling_habit = Frequencies[5]
    /\ user_data.composting
    /\ user_data.single_use_plastics = Frequencies[1]
    /\ score.value = 11

----------------------------------------------------------------------------
(* Properties of the water, waste and food calculators (SpecWater, SpecWaste,
   SpecFood) *)

\* C17: the water score is clamp(round(75 - shower_length * shower_frequency *
\* 0.2 + bonus - 0.7 * 5)), bonus being 6 per selected measure when "None of
\* the above" is not selected and 0 whenever it is, whatever else is selected.
C17_WaterScoreFormula ==
    (Scored /\ ValidProfile(user_data)) =>
        LET m == user_data.water_conservation
            bonus == IF "None of the above" \in m THEN 0 ELSE 600 * Cardinality(m)
        IN  score.value =
                Max(0, Min(100, RoundHalfEven(7500 - user_data.shower_length
                                                     * user_data.shower_frequency * 20
                                              + bonus - 350, 100)))

\* "None of the above" selected together with a real measure: no bonus,
\* round(75 - 5 * 7 * 0.2 + 0 - 3.5) = round(64.5) = 64.
C17_Witness ==
    /\ Scored /\ ValidProfile(user_data)
    /\ user_data.shower_length = 5 /\ user_data.shower_frequency = 7
    /\ user_data.water_conservation = {"Low-flow showerheads/faucets", "None of the above"}
    /\ score.value = 64

\* C19: the waste score is clamp(round(60 + R + C + P + local_food * 0.1 - 0.8 * 5)),
\* R = 0 / 5 / 10 / 15 / 20 and P = +20 / +15 / +5 / -5 / -15 for Never / Rarely /
\* Sometimes / Often / Always, C = 15 with composting and 0 without.
C19_WasteScoreFormula ==
    (Scored /\ ValidProfile(user_data)) =>
        LET points(answer, table) ==
                CASE answer = "Never" -> table[1] [] answer = "Rarely" -> table[2]
                  [] answer = "Sometimes" -> table[3] [] answer = "Often" -> table[4]
                  [] answer = "Always" -> table[5]
            R == points(user_data.recycling_habit, <<0, 5, 10, 15, 20>>)
            C == IF user_data.composting THEN 15 ELSE 0
            P == points(user_data.single_use_plastics, <<20, 15, 5, -5, -15>>)
        IN  score.value =
                Max(0, Min(100, RoundHalfEven((60 + R + C + P) * 100
                                              + user_data.local_food * 10 - 400, 100)))

\* Recycling always (+20), composting (+15), single-use plastics always (-15),
\* 5% local food: round(60 + 20 + 15 - 15 + 0.5 - 4) = round(76.5) = 76.
C19_Witness ==
    /\ Scored /\ ValidProfile(user_data)
    /\ user_data.recycling_habit = Frequencies[5] /\ user_data.composting
    /\ user_data.single_use_plastics = Frequencies[5] /\ user_data.local_food = 5
    /\ score.value = 76

\* C20: the food score is clamp(round(50 + D + local_food * 0.15 - meals_out * 0.5
\* - 0.85 * 5)), D = 40 / 30 / 20 / 15 / 0 for Vegan / Vegetarian / Pescatarian /
\* Flexitarian / Omnivore.
C20_FoodScoreFormula ==
    (Scored /\ ValidProfile(user_data)) =>
        LET D == CASE user_data.diet_type = "Vegan" -> 40
                   [] user_data.diet_type = "Vegetarian" -> 30
                   [] user_data.diet_type = "Pescatarian" -> 20
                   [] user_data.diet_type =
                          "Flexitarian (mostly plant-based with occasional meat)" -> 15
                   [] user_data.diet_type = "Omnivore (regular meat consumption)" -> 0
        IN  score.value =
                Max(0, Min(100, RoundHalfEven(5000 + D * 100 + user_data.local_food * 15
                                              - user_data.meals_out * 50 - 425, 100)))

\* A flexitarian with 30% local food eating out 4 times a week:
\* round(50 + 15 + 4.5 - 2 - 4.25) = round(63.25) = 63.
C20_Witness ==
    /\ Scored /\ ValidProfile(user_data)
    /\ user_data.diet_type = DietTypes[4]
    /\ user_data.local_food = 30 /\ user_data.meals_out = 4
    /\ score.value = 63

----------------------------------------------------------------------------
(* Properties of the selector (SpecSelector; Spec runs it as well) *)

Recommended == pc = "recommended"

AreaNames == <<"transportation", "energy", "water", "waste", "food">>

\* The positions, in the fixed order, of the categories scoring below 60.
Below60 == {i \in 1..Len(ScoreFields) : impact_results[ScoreFields[i]] < 60}

\* C7: when some category score is below 60, areas_for_improvement lists
\* exactly the categories scoring below 60, each once, in the order transport,
\* energy, water, waste, food.
C7_AreasAreThoseBelowSixty ==
    (Recommended /\ Below60 # {}) =>
        /\ Len(areas_for_improvement) = Cardinality(Below60)
        /\ \A i \in Below60 :
               areas_for_improvement[Cardinality({j \in Below60 : j <= i})] = AreaNames[i]

\* Transport and water are below 60, energy is not, and the list names the two.
C7_Witness ==
    /\ Recommended
    /\ impact_results.transport_score < 60
    /\ impact_results.energy_score >= 60
    /\ impact_results.water_score < 60
    /\ impact_results.waste_score = 60
    /\ impact_results.food_score > 60
    /\ areas_for_improvement = <<"transportation", "water">>

\* The lowest of the five category scores.
LowestScore ==
    CHOOSE m \in {impact_results[ScoreFields[i]] : i \in 1..Len(ScoreFields)} :
        \A i \in 1..Len(ScoreFields) : m <= impact_results[ScoreFields[i]]

\* C8: when all five scores are at least 60, areas_for_improvement holds just
\* the first category, in the fixed order, whose score is the lowest; and the
\* list is never empty.
C8_FallbackIsFirstLowest ==
    Recommended =>
        /\ areas_for_improvement # <<>>
        /\ Below60 = {} =>
               \E i \in 1..Len(ScoreFields) :
                   /\ impact_results[ScoreFields[i]] = LowestScore
                   /\ \A j \in 1..(i - 1) : impact_results[ScoreFields[j]] > LowestScore
                   /\ areas_for_improvement = <<AreaNames[i]>>

\* All scores are at least 60, energy ties with food for the lowest, and the
\* list is ["energy"].
C8_Witness ==
    /\ Recommended
    /\ Below60 = {}
    /\ impact_results.energy_score = LowestScore
    /\ impact_results.food_score = LowestScore
    /\ impact_results.transport_score > LowestScore
    /\ areas_for_improvement = <<"energy">>

----------------------------------------------------------------------------
(* Independence of the category calculators (Spec) *)

\* The fields each category calculator reads, in the order of ScoreFields.
OwnFields ==
    <<{"car_usage", "car_type", "public_transport_usage", "flight_hours"},
      {"household_size", "electricity_bill", "renewable_energy", "air_conditioning"},
      {"shower_length", "shower_frequency", "water_conservation"},
      {"recycling_habit", "composting", "single_use_plastics", "local_food"},
      {"diet_type", "local_food", "meals_out"}>>

\* The profiles that differ from ud in the answers of one section of the form.
SectionSwaps(ud) ==
    {section @@ ud :
        section \in TransportAnswers \cup EnergyAnswers \cup WaterAnswers
                    \cup WasteAnswers \cup FoodAnswers} \ {ud}

AgreeOn(p, q, fields) == \A k \in fields : p[k] = q[k]

\* C11: each category score depends only on its own section's fields (local_food
\* being read by both the waste and the food calculator): a profile that agrees
\* with the evaluated one on a calculator's fields gets the same score from it,
\* whatever its other answers are and whatever the other calculators return.
C11_ScoreDependsOnOwnFieldsOnly ==
    Returned =>
        \A q \in SectionSwaps(user_data) : \A i \in 1..Len(ScoreFields) :
            AgreeOn(user_data, q, OwnFields[i]) =>
                Call(i, q, fp_tie_up) = Return(impact_results[ScoreFields[i]])

\* A profile has been evaluated, and another one with the same food answers and
\* local_food but a different waste score gets the same food score.
C11_Witness ==
    /\ Returned
    /\ \E q \in SectionSwaps(user_data) :
           /\ AgreeOn(user_data, q, OwnFields[5])
           /\ ~AgreeOn(user_data, q, OwnFields[4])
           /\ Call(4, q, fp_tie_up).ok
           /\ Call(4, q, fp_tie_up).value # impact_results.waste_score
           /\ Call(5, q, fp_tie_up) = Return(impact_results.food_score)

----------------------------------------------------------------------------
(* Properties of the page routing (SpecSession) *)

\* C24: in every state reached from page = welcome with nothing stored, the
\* results page has impact_results to show and the recommendations page has
\* recommendations to show, so the "No results found" and "No recommendations
\* found" branches are never taken through the application's own buttons.
C24_PagesHaveWhatTheyShow ==
    /\ page = "results" => impact_results # None
    /\ page = "recommendations" => recommendations # None

\* The recommendations page is shown, with the results and the recommendations
\* of a submitted questionnaire stored.
C24_Witness ==
    /\ page = "recommendations"
    /\ user_data \in FormProfiles
    /\ impact_results = calculate_impact(user_data, fp_tie_up).value
    /\ recommendations = get_personalized_recommendations(user_data, impact_results)

\* C25: within a session the recommendations are computed at most once: once
\* st.session_state.recommendations is not None no step assigns it again or
\* runs the selector again, not even a new submission after "Start Over" that
\* replaces user_data and impact_results.
C25_RecommendationsComputedOnce ==
    [][recommendations # None =>
           /\ recommendations' = recommendations
           /\ areas_for_improvement' = areas_for_improvement]_vars

\* After a second submission: the results shown are those of the new answers,
\* the areas for improvement still those selected for the first ones.
C25_Witness ==
    /\ page = "results"
    /\ recommendations # None
    /\ impact_results = calculate_impact(user_data, fp_tie_up).value
    /\ areas_for_improvement # get_areas_for_improvement(impact_results)

====
